---------------------------- MODULE Spec2Model ----------------------------
(***************************************************************************)
(* Inopsio AI Enterprise: the frontend's route-protection middleware       *)
(* (frontend/src/middleware.ts), the API client and the auth service       *)
(* (frontend/src/lib/api.ts).  Strings are TLC strings, inspected          *)
(* character by character with Len, SubSeq and \o.                         *)
(***************************************************************************)
EXTENDS Integers, Sequences, FiniteSets, Bags, TLC

VARIABLES
    request,        \* middleware: the NextRequest being handled
    response,       \* middleware: None, or {the NextResponse returned}
    window,         \* whether the module runs in a browser (typeof window)
    localStorage,   \* the origin's localStorage: key -> value
    cookieJar,      \* the browser's cookies for the origin
    now,            \* the clock, in seconds
    logins,         \* the login() calls made so far, a bag: each with its position
    calls,          \* the apiFetch() calls made so far, a bag: each with its position
    nextUuid,       \* how many identifiers crypto.randomUUID() has handed out
    checked,        \* None, or {the token isTokenExpired was asked about, its answer}
    store,          \* the backend's tenant-owned records and the next id to assign
    served,         \* None, or {the backend request being served, with its position}
    history         \* the URLs the browser was redirected away from, in order

apiVars == <<calls, nextUuid>>

backendVars == <<store, served>>

vars == <<request, response, window, localStorage, cookieJar, now, logins, calls, nextUuid,
          checked, store, served, history>>

---------------------------------------------------------------------------
(* Optional values (undefined / null): the empty set, or a singleton.      *)

None == {}

Some(v) == {v}

The(o) == CHOOSE v \in o : TRUE

---------------------------------------------------------------------------
(* JavaScript string primitives.                                           *)

CharAt(s, i) == SubSeq(s, i, i)

RECURSIVE IndexFrom(_, _, _)
\* String.prototype.indexOf from position `from` (1-based; 0 when absent)
IndexFrom(s, pat, from) ==
    IF from + Len(pat) - 1 > Len(s) THEN 0
    ELSE IF SubSeq(s, from, from + Len(pat) - 1) = pat THEN from
    ELSE IndexFrom(s, pat, from + 1)

\* String.prototype.includes
Includes(s, pat) == IndexFrom(s, pat, 1) # 0

\* the characters of a string, as a set
Chars(s) == { SubSeq(s, i, i) : i \in 1..Len(s) }

LowerAZ == "abcdefghijklmnopqrstuvwxyz"

LowerSet == Chars(LowerAZ)


\* the printable ASCII characters 0x20..0x5F and 0x61..0x7E (0x60 cannot be
\* written in a string of this language and occurs in no input of the model)
AsciiLow == " !\"#$%&'()*+,-./0123456789:;<=>?@ABCDEFGHIJKLMNOPQRSTUVWXYZ[\\]^_"

AsciiHigh == "abcdefghijklmnopqrstuvwxyz{|}~"

\* String.prototype.charCodeAt, for the printable ASCII characters
CharCode(c) ==
    IF Includes(AsciiLow, c) THEN 31 + IndexFrom(AsciiLow, c, 1)
    ELSE 96 + IndexFrom(AsciiHigh, c, 1)

\* String.fromCharCode, for the printable ASCII codes
FromCharCode(n) ==
    IF n <= 95 THEN CharAt(AsciiLow, n - 31) ELSE CharAt(AsciiHigh, n - 96)

HexDigits == "0123456789ABCDEF"

UpperAZ == "ABCDEFGHIJKLMNOPQRSTUVWXYZ"

Digits == "0123456789"

UpperSet == Chars(UpperAZ)

DigitSet == Chars(Digits)

RECURSIVE ToLower(_)
\* String.prototype.toLowerCase over ASCII
ToLower(s) ==
    IF s = "" THEN ""
    ELSE LET c == CharAt(s, 1)
         IN  (IF c \in UpperSet THEN CharAt(LowerAZ, IndexFrom(UpperAZ, c, 1)) ELSE c)
                 \o ToLower(Tail(s))

RECURSIVE TrimLeft(_)
TrimLeft(s) == IF s # "" /\ CharAt(s, 1) = " " THEN TrimLeft(Tail(s)) ELSE s

RECURSIVE TrimRight(_)
TrimRight(s) ==
    IF s # "" /\ CharAt(s, Len(s)) = " " THEN TrimRight(SubSeq(s, 1, Len(s) - 1)) ELSE s

Trim(s) == TrimLeft(TrimRight(s))

RECURSIVE Split(_, _)

SplitAt(s, sep, at) ==
    IF at = 0 THEN <<s>>
    ELSE <<SubSeq(s, 1, at - 1)>> \o Split(SubSeq(s, at + 1, Len(s)), sep)

\* String.prototype.split on a one-character separator
Split(s, sep) == SplitAt(s, sep, IndexFrom(s, sep, 1))

IsDigits(s) == s # "" /\ \A i \in 1..Len(s) : CharAt(s, i) \in DigitSet

RECURSIVE ParseDigits(_)
\* the number a string of decimal digits writes
ParseDigits(s) ==
    IF s = "" THEN 0
    ELSE 10 * ParseDigits(SubSeq(s, 1, Len(s) - 1))
             + (IndexFrom(Digits, CharAt(s, Len(s)), 1) - 1)

---------------------------------------------------------------------------
(* WHATWG URL: the pieces of `new URL`, `url.pathname`, `url.searchParams`  *)
(* the middleware uses.                                                     *)

\* the application/x-www-form-urlencoded percent-encode set leaves these alone
FormSafe == "*-._0123456789ABCDEFGHIJKLMNOPQRSTUVWXYZabcdefghijklmnopqrstuvwxyz"

FormSafeSet == Chars(FormSafe)

FormEncodeChar(c) ==
    IF c \in FormSafeSet THEN c
    ELSE IF c = " " THEN "+"
    ELSE "%" \o CharAt(HexDigits, (CharCode(c) \div 16) + 1)
             \o CharAt(HexDigits, (CharCode(c) % 16) + 1)

RECURSIVE FormEncode(_)
\* the urlencoded serializer applied to one name or value
FormEncode(s) ==
    IF s = "" THEN "" ELSE FormEncodeChar(CharAt(s, 1)) \o FormEncode(Tail(s))

HexSet == Chars(HexDigits) \cup Chars("abcdef")

HexValue(c) ==
    IF Includes(HexDigits, c) THEN IndexFrom(HexDigits, c, 1) - 1
    ELSE IndexFrom("abcdef", c, 1) + 9

RECURSIVE FormDecode(_)
\* the urlencoded parser applied to one name or value: "+" is a space, %XY a byte
FormDecode(s) ==
    IF s = "" THEN ""
    ELSE IF CharAt(s, 1) = "+" THEN " " \o FormDecode(Tail(s))
    ELSE IF CharAt(s, 1) = "%" /\ Len(s) >= 3
            /\ CharAt(s, 2) \in HexSet /\ CharAt(s, 3) \in HexSet
         THEN FromCharCode(16 * HexValue(CharAt(s, 2)) + HexValue(CharAt(s, 3)))
                  \o FormDecode(SubSeq(s, 4, Len(s)))
    ELSE CharAt(s, 1) \o FormDecode(Tail(s))

\* url.origin: scheme, "://", host; the path starts at the next "/"
UrlOriginEnd(url) == IndexFrom(url, "/", IndexFrom(url, "://", 1) + 3)

UrlOriginCut(url, pathAt) == IF pathAt = 0 THEN url ELSE SubSeq(url, 1, pathAt - 1)

UrlOrigin(url) == UrlOriginCut(url, UrlOriginEnd(url))

UrlPathCut(rest, q) ==
    IF rest = "" THEN "/" ELSE IF q = 0 THEN rest ELSE SubSeq(rest, 1, q - 1)

UrlPathOf(rest) == UrlPathCut(rest, IndexFrom(rest, "?", 1))

\* url.pathname: from the first "/" after the host to the "?" (or the end)
UrlPathname(url) ==
    UrlPathOf(IF UrlOriginEnd(url) = 0 THEN "" ELSE SubSeq(url, UrlOriginEnd(url), Len(url)))

UrlSearchCut(url, q) == IF q = 0 THEN "" ELSE SubSeq(url, q, Len(url))

\* url.search: "" or the part from "?" on
UrlSearch(url) == UrlSearchCut(url, IndexFrom(url, "?", 1))

\* new URL(path, base).href for an absolute path: the base's origin, then the path
NewURL(path, base) == UrlOrigin(base) \o path

\* url.searchParams.set(name, value) on a URL that has no query yet
SearchParamsSet(url, name, value) ==
    url \o "?" \o FormEncode(name) \o "=" \o FormEncode(value)

RECURSIVE QueryGet(_, _)

QueryPair(pair, eq, rest, name) ==
    IF pair # "" /\ FormDecode(IF eq = 0 THEN pair ELSE SubSeq(pair, 1, eq - 1)) = name
    THEN Some(FormDecode(IF eq = 0 THEN "" ELSE SubSeq(pair, eq + 1, Len(pair))))
    ELSE QueryGet(rest, name)

QueryCut(query, amp, name) ==
    IF amp = 0 THEN QueryPair(query, IndexFrom(query, "=", 1), "", name)
    ELSE QueryPair(SubSeq(query, 1, amp - 1), IndexFrom(SubSeq(query, 1, amp - 1), "=", 1),
                   SubSeq(query, amp + 1, Len(query)), name)

\* URLSearchParams.get over "a=b&c=d": the first pair whose decoded name is `name`
QueryGet(query, name) ==
    IF query = "" THEN None ELSE QueryCut(query, IndexFrom(query, "&", 1), name)

SearchParamsOf(search, name) ==
    IF search = "" THEN None ELSE QueryGet(SubSeq(search, 2, Len(search)), name)

\* new URL(href).searchParams.get(name)
SearchParamsGet(url, name) == SearchParamsOf(UrlSearch(url), name)

---------------------------------------------------------------------------
(* frontend/src/middleware.ts                                               *)

TOKEN_KEY == "inopsio_token"

PROTECTED_PATTERNS == {"/dashboard", "/admin"}

AUTH_ROUTES == {"/signin", "/signup", "/login"}

\* request.cookies.get(name)?.value
CookiesGet(cookies, name) ==
    IF name \in DOMAIN cookies THEN Some(cookies[name]) ELSE None

\* a presence check that also asks for the dots of a header.payload.signature
Truthy_Structural(o) == o # None /\ Includes(The(o), ".")

\* JavaScript truthiness of a string or undefined
Truthy(o) == o # None /\ The(o) # ""

\* pathname.match(/^\/([a-z]{2})\//): the capture group, or None
LocaleMatch(pathname) ==
    IF /\ Len(pathname) >= 4
       /\ CharAt(pathname, 1) = "/"
       /\ CharAt(pathname, 2) \in LowerSet
       /\ CharAt(pathname, 3) \in LowerSet
       /\ CharAt(pathname, 4) = "/"
    THEN Some(SubSeq(pathname, 2, 3))
    ELSE None

\* the locale taken as fixed
Locale_AlwaysDefault(pathname) == "en"

Locale(pathname) ==
    IF LocaleMatch(pathname) # None THEN The(LocaleMatch(pathname)) ELSE "en"

\* the pattern list with /admin left out
IsProtectedRoute_NoAdmin(pathname) == Includes(pathname, "/dashboard")

IsProtectedRoute(pathname) == \E pattern \in PROTECTED_PATTERNS : Includes(pathname, pattern)

\* the route list with /login left out
IsAuthRoute_NoLogin(pathname) == Includes(pathname, "/signin") \/ Includes(pathname, "/signup")

IsAuthRoute(pathname) == \E route \in AUTH_ROUTES : Includes(pathname, route)

\* NextResponse.next(): pass the request on; no header is set on it
NextResponseNext == [kind |-> "next", location |-> "", setCookie |-> <<>>]

\* NextResponse.redirect(url): Location is the URL's href; no cookie is set on it
NextResponseRedirect(url) == [kind |-> "redirect", location |-> url, setCookie |-> <<>>]

\* rule 2 without its credential test
Decide_Rule2Always(url, pathname, token, locale) ==
    IF IsProtectedRoute(pathname) /\ ~Truthy(token)
    THEN NextResponseRedirect(
             SearchParamsSet(NewURL("/" \o locale \o "/signin", url), "callbackUrl", pathname))
    ELSE IF IsAuthRoute(pathname)
    THEN NextResponseRedirect(NewURL("/" \o locale \o "/dashboard", url))
    ELSE NextResponseNext

\* the three rules, on the values the middleware computed from the request
Decide(url, pathname, token, locale) ==
    IF IsProtectedRoute(pathname) /\ ~Truthy(token)
    THEN NextResponseRedirect(
             SearchParamsSet(NewURL("/" \o locale \o "/signin", url), "callbackUrl", pathname))
    ELSE IF IsAuthRoute(pathname) /\ Truthy(token)
    THEN NextResponseRedirect(NewURL("/" \o locale \o "/dashboard", url))
    ELSE NextResponseNext

middleware(req) ==
    Decide(req.url, UrlPathname(req.url), CookiesGet(req.cookies, TOKEN_KEY),
           Locale(UrlPathname(req.url)))

---------------------------------------------------------------------------
(* The browser: localStorage and document.cookie, as api.ts uses them.      *)

\* localStorage.getItem: the value, or null
GetItem(storage, key) == IF key \in DOMAIN storage THEN Some(storage[key]) ELSE None

\* localStorage.setItem
SetItem(storage, key, value) ==
    [k \in DOMAIN storage \cup {key} |-> IF k = key THEN value ELSE storage[k]]

\* localStorage.removeItem
RemoveItem(storage, key) == [k \in DOMAIN storage \ {key} |-> storage[k]]

CookieAttrCut(av, eq) ==
    IF eq = 0 THEN <<ToLower(Trim(av)), "">>
    ELSE <<ToLower(Trim(SubSeq(av, 1, eq - 1))), Trim(SubSeq(av, eq + 1, Len(av)))>>

\* one attribute of a cookie string, "name=value" or "name": <<name, value>>
CookieAttr(av) == CookieAttrCut(av, IndexFrom(av, "=", 1))

CookieAttrPick(attrs, at) ==
    IF at = {} THEN None ELSE Some(attrs[CHOOSE i \in at : \A j \in at : j <= i][2])

\* the value of the last attribute named `name`, or None
CookieAttrValue(attrs, name) ==
    CookieAttrPick(attrs, { i \in DOMAIN attrs : attrs[i][1] = name })

CookiePair(pair, eq) ==
    IF eq = 0 THEN <<"", Trim(pair)>>
    ELSE <<Trim(SubSeq(pair, 1, eq - 1)), Trim(SubSeq(pair, eq + 1, Len(pair)))>>

CookieOf(pair, maxAge, path, site, t) ==
    [ name     |-> pair[1],
      value    |-> pair[2],
      path     |-> IF path # None /\ The(path) # "" /\ CharAt(The(path), 1) = "/"
                   THEN The(path) ELSE "/",
      \* a session cookie (no max-age) has no expiry: None
      expires  |-> IF maxAge = None THEN None
                   ELSE IF IsDigits(The(maxAge)) /\ ParseDigits(The(maxAge)) > 0
                        THEN Some(t + ParseDigits(The(maxAge)))
                   ELSE Some(t),
      sameSite |-> IF site = None THEN "" ELSE ToLower(The(site)) ]

CookieFrom(pair, attrs, t) ==
    CookieOf(CookiePair(pair, IndexFrom(pair, "=", 1)), CookieAttrValue(attrs, "max-age"),
             CookieAttrValue(attrs, "path"), CookieAttrValue(attrs, "samesite"), t)

CookieParts(parts, t) ==
    CookieFrom(parts[1], [i \in 1..(Len(parts) - 1) |-> CookieAttr(parts[i + 1])], t)

\* the cookie a string assigned to document.cookie at time t describes:
\* name and value around the first "=", cut at the first ";", then the attributes;
\* max-age puts the expiry at t + max-age, and at once when it is not positive
ParseSetCookie(str, t) == CookieParts(Split(str, ";"), t)

CookieLive(c, t) == c.expires = None \/ t < The(c.expires)

CookieStore(jar, c, t) ==
    IF CookieLive(c, t) THEN { o \in jar : ~(o.name = c.name /\ o.path = c.path) } \cup {c}
    ELSE { o \in jar : ~(o.name = c.name /\ o.path = c.path) }

\* the setter of document.cookie: the new cookie replaces the one of the same name
\* and path; a cookie that is already expired only removes it
DocumentCookieSet(jar, str, t) == CookieStore(jar, ParseSetCookie(str, t), t)

\* whether a cookie's path covers a request path
PathMatch(pathname, cookiePath) ==
    \/ cookiePath = pathname
    \/ /\ Len(pathname) > Len(cookiePath)
       /\ SubSeq(pathname, 1, Len(cookiePath)) = cookiePath
       /\ \/ CharAt(cookiePath, Len(cookiePath)) = "/"
          \/ CharAt(pathname, Len(cookiePath) + 1) = "/"

CookiesSent(sent) ==
    [ n \in { c.name : c \in sent } |->
        (CHOOSE c \in sent : c.name = n /\ \A o \in sent : o.name = n => Len(o.path) <= Len(c.path)).value ]

\* the cookies the browser sends with a request for `pathname` at time t
CookieHeader(jar, pathname, t) ==
    CookiesSent({ c \in jar : CookieLive(c, t) /\ PathMatch(pathname, c.path) })

---------------------------------------------------------------------------
(* JSON.parse / response.json(): objects, strings without escapes, integers, *)
(* true, false, null; a value is a record of its type t and its content, in  *)
(* the field of that type.                                                   *)

JUndefined == [t |-> "undefined", s |-> "", n |-> 0, b |-> FALSE, o |-> <<>>]

JNull == [JUndefined EXCEPT !.t = "null"]

JStr(x) == [JUndefined EXCEPT !.t = "str", !.s = x]

JNum(x) == [JUndefined EXCEPT !.t = "num", !.n = x]

JBool(x) == [JUndefined EXCEPT !.t = "bool", !.b = x]

JObj(x) == [JUndefined EXCEPT !.t = "obj", !.o = x]

JFail == [ok |-> FALSE, val |-> JNull, rest |-> ""]

StartsWith(s, pre) == Len(s) >= Len(pre) /\ SubSeq(s, 1, Len(pre)) = pre

Drop(s, n) == SubSeq(s, n + 1, Len(s))

\* the length of the longest prefix of s made of digits
RECURSIVE DigitRun(_)
DigitRun(s) ==
    IF s # "" /\ CharAt(s, 1) \in DigitSet THEN 1 + DigitRun(Tail(s)) ELSE 0

JsonStringCut(s, close) ==
    IF ~StartsWith(s, "\"") \/ close = 0 \/ Includes(SubSeq(s, 2, close - 1), "\\")
    THEN JFail
    ELSE [ok |-> TRUE, val |-> JStr(SubSeq(s, 2, close - 1)),
          rest |-> Drop(s, close)]

\* a JSON string starting at the opening quote
JsonString(s) == JsonStringCut(s, IndexFrom(s, "\"", 2))

JsonNumberCut(sign, body, n, rest) ==
    IF n = 0 \/ (n > 1 /\ CharAt(body, 1) = "0")
       \/ StartsWith(rest, ".") \/ StartsWith(rest, "e") \/ StartsWith(rest, "E")
    THEN JFail
    ELSE [ok |-> TRUE, val |-> JNum(sign * ParseDigits(SubSeq(body, 1, n))),
          rest |-> rest]

JsonNumberBody(sign, body, n) == JsonNumberCut(sign, body, n, Drop(body, n))

\* a JSON number: an optional minus and digits (no fraction, no exponent)
JsonNumber(s) ==
    IF StartsWith(s, "-") THEN JsonNumberBody(-1, Tail(s), DigitRun(Tail(s)))
    ELSE JsonNumberBody(1, s, DigitRun(s))

RECURSIVE JsonValue(_)
RECURSIVE JsonMembers(_, _)

JsonMemberEnd(obj, after) ==
    IF StartsWith(after, ",") THEN JsonMembers(Drop(after, 1), obj)
    ELSE IF StartsWith(after, "}")
         THEN [ok |-> TRUE, val |-> JObj(obj), rest |-> Drop(after, 1)]
    ELSE JFail

JsonMemberValue(acc, name, val) ==
    IF ~val.ok THEN JFail ELSE JsonMemberEnd(SetItem(acc, name, val.val), TrimLeft(val.rest))

JsonMemberColon(acc, name, colon) ==
    IF ~StartsWith(colon, ":") THEN JFail
    ELSE JsonMemberValue(acc, name, JsonValue(Drop(colon, 1)))

JsonMemberKey(acc, key) ==
    IF ~key.ok THEN JFail ELSE JsonMemberColon(acc, key.val.s, TrimLeft(key.rest))

\* the members of an object after "{" or ",": "key": value, then "," or "}"
JsonMembers(s, acc) == JsonMemberKey(acc, JsonString(TrimLeft(s)))

JsonObject(inner) ==
    IF StartsWith(inner, "}")
    THEN [ok |-> TRUE, val |-> JObj(<<>>), rest |-> Drop(inner, 1)]
    ELSE JsonMembers(inner, <<>>)

JsonValueAt(t) ==
    IF StartsWith(t, "{") THEN JsonObject(TrimLeft(Drop(t, 1)))
    ELSE IF StartsWith(t, "\"") THEN JsonString(t)
    ELSE IF StartsWith(t, "true")
         THEN [ok |-> TRUE, val |-> JBool(TRUE), rest |-> Drop(t, 4)]
    ELSE IF StartsWith(t, "false")
         THEN [ok |-> TRUE, val |-> JBool(FALSE), rest |-> Drop(t, 5)]
    ELSE IF StartsWith(t, "null")
         THEN [ok |-> TRUE, val |-> JNull, rest |-> Drop(t, 4)]
    ELSE JsonNumber(t)

JsonValue(s) == JsonValueAt(TrimLeft(s))

JsonDone(r) == IF r.ok /\ TrimLeft(r.rest) = "" THEN Some(r.val) ELSE None

\* JSON.parse(text): None when it throws SyntaxError, else {the value}
JsonParse(text) == JsonDone(JsonValue(text))

\* value.key for a parsed value that is not null: undefined unless an object has it
JsonGet(value, key) ==
    IF value.t = "obj" /\ key \in DOMAIN value.o THEN value.o[key] ELSE JUndefined

\* truthiness of a parsed value
JsonTruthy(value) ==
    CASE value.t = "str"  -> value.s # ""
      [] value.t = "num"  -> value.n # 0
      [] value.t = "bool" -> value.b
      [] value.t = "obj"  -> TRUE
      [] OTHER            -> FALSE

\* String(value), as a template literal or setItem converts it
JsonToString(value) ==
    CASE value.t = "str"       -> value.s
      [] value.t = "num"       -> ToString(value.n)
      [] value.t = "bool"      -> IF value.b THEN "true" ELSE "false"
      [] value.t = "null"      -> "null"
      [] value.t = "undefined" -> "undefined"
      [] OTHER                 -> "[object Object]"

---------------------------------------------------------------------------
(* frontend/src/lib/api.ts: the stored token.                               *)

\* the storage key of api.ts, which must be the cookie name the middleware reads
API_TOKEN_KEY == "inopsio_token"

\* max-age=${60 * 60 * 24 * 7}
MaxAge == 60 * 60 * 24 * 7

getToken == IF ~window THEN None ELSE GetItem(localStorage, API_TOKEN_KEY)

\* setToken that leaves the cookie alone
setToken_cookieJar_Skip(token) == cookieJar

\* setToken: localStorage after it
setToken_localStorage(token) ==
    IF ~window THEN localStorage ELSE SetItem(localStorage, API_TOKEN_KEY, token)

\* setToken: the cookies after it
setToken_cookieJar(token) ==
    IF ~window THEN cookieJar
    ELSE DocumentCookieSet(cookieJar,
             API_TOKEN_KEY \o "=" \o token \o "; path=/; max-age=" \o ToString(MaxAge)
                 \o "; SameSite=Lax",
             now)

\* clearToken that leaves the cookie alone
clearToken_cookieJar_Skip == cookieJar

\* clearToken: localStorage after it
clearToken_localStorage ==
    IF ~window THEN localStorage ELSE RemoveItem(localStorage, API_TOKEN_KEY)

\* clearToken: the cookies after it
clearToken_cookieJar ==
    IF ~window THEN cookieJar
    ELSE DocumentCookieSet(cookieJar, API_TOKEN_KEY \o "=; path=/; max-age=0", now)

\* isAuthenticated(): !!getToken()
isAuthenticated == Truthy(getToken)

---------------------------------------------------------------------------
(* atob, and frontend/src/lib/api.ts: decodeToken and isTokenExpired.       *)

B64Alphabet == "ABCDEFGHIJKLMNOPQRSTUVWXYZabcdefghijklmnopqrstuvwxyz0123456789+/"

B64Set == Chars(B64Alphabet)

\* the six bits a base64 character stands for
B64Value(c) == IndexFrom(B64Alphabet, c, 1) - 1

\* the character of one decoded byte (every payload of the model decodes to
\* printable ASCII; any other byte is written "?")
ByteChar(n) == IF n >= 32 /\ n <= 126 /\ n # 96 THEN FromCharCode(n) ELSE "?"

B64Bytes3(n) == ByteChar(n \div 65536) \o ByteChar((n \div 256) % 256) \o ByteChar(n % 256)

B64Bytes2(n) == ByteChar(n \div 256) \o ByteChar(n % 256)

RECURSIVE B64Decode(_)
\* four characters give three bytes; a tail of three gives two, of two gives one
B64Decode(s) ==
    IF Len(s) >= 4
    THEN B64Bytes3(B64Value(CharAt(s, 1)) * 262144 + B64Value(CharAt(s, 2)) * 4096
                   + B64Value(CharAt(s, 3)) * 64 + B64Value(CharAt(s, 4)))
             \o B64Decode(Drop(s, 4))
    ELSE IF Len(s) = 3
    THEN B64Bytes2((B64Value(CharAt(s, 1)) * 4096 + B64Value(CharAt(s, 2)) * 64
                    + B64Value(CharAt(s, 3))) \div 4)
    ELSE IF Len(s) = 2
    THEN ByteChar((B64Value(CharAt(s, 1)) * 64 + B64Value(CharAt(s, 2))) \div 16)
    ELSE ""

\* padding is dropped only from an input whose length is a multiple of four
B64Unpad(s) ==
    IF Len(s) % 4 # 0 \/ s = "" THEN s
    ELSE IF SubSeq(s, Len(s) - 1, Len(s)) = "==" THEN SubSeq(s, 1, Len(s) - 2)
    ELSE IF CharAt(s, Len(s)) = "=" THEN SubSeq(s, 1, Len(s) - 1)
    ELSE s

AtobBody(s) ==
    IF Len(s) % 4 = 1 \/ ~(Chars(s) \subseteq B64Set) THEN None ELSE Some(B64Decode(s))

\* atob(data): None when it throws InvalidCharacterError, else {the decoded string}
atob(data) == AtobBody(B64Unpad(data))

\* token.split(".")[1], converted to a string as atob converts its argument
Base64Payload(parts) == IF Len(parts) >= 2 THEN parts[2] ELSE "undefined"

DecodePayload(payload) == IF payload = None THEN None ELSE JsonParse(The(payload))

\* decodeToken(token): None for the null of the catch, else {the parsed payload}
decodeToken(token) == DecodePayload(atob(Base64Payload(Split(token, "."))))

\* Number(value): None for NaN
ToNumber(value) ==
    CASE value.t = "num"  -> Some(value.n)
      [] value.t = "bool" -> Some(IF value.b THEN 1 ELSE 0)
      [] value.t = "null" -> Some(0)
      [] value.t = "str"  -> IF Trim(value.s) = "" THEN Some(0)
                             ELSE IF IsDigits(Trim(value.s))
                                  THEN Some(ParseDigits(Trim(value.s)))
                             ELSE None
      [] OTHER            -> None

\* Date.now(), in milliseconds
DateNow(t) == t * 1000

\* Date.now() >= (payload.exp * 1000) - 60000; a comparison with NaN is false
ExpiredAt(t, exp) == exp # None /\ DateNow(t) >= (The(exp) * 1000) - 60000

ExpiredPayload(t, payload) ==
    IF payload = None \/ ~JsonTruthy(The(payload)) THEN TRUE
    ELSE ExpiredAt(t, ToNumber(JsonGet(The(payload), "exp")))

\* isTokenExpired(token) at clock t
isTokenExpired(token, t) == ExpiredPayload(t, decodeToken(token))

---------------------------------------------------------------------------
(* frontend/src/lib/auth.ts (the second half of api.ts): login and logout.  *)

\* env.NEXT_PUBLIC_API_URL
API_URL == "https://api.test"

API_PREFIX == "/api/v1"

\* login that posts the credentials as a JSON body
LoginRequest_Json(email, password) ==
    [ method      |-> "POST",
      url         |-> API_URL \o API_PREFIX \o "/auth/login",
      headers     |-> ("Content-Type" :> "application/json"),
      body        |-> "{\"username\":\"" \o email \o "\",\"password\":\"" \o password \o "\"}",
      credentials |-> "include" ]

\* the request login(email, password) hands to fetch: a URLSearchParams body
LoginRequest(email, password) ==
    [ method      |-> "POST",
      url         |-> API_URL \o API_PREFIX \o "/auth/login",
      headers     |-> ("Content-Type" :> "application/x-www-form-urlencoded"),
      body        |-> FormEncode("username") \o "=" \o FormEncode(email) \o "&"
                          \o FormEncode("password") \o "=" \o FormEncode(password),
      credentials |-> "include" ]

Pending == [kind |-> "pending", access_token |-> "", token_type |-> "", message |-> ""]

Thrown(message) ==
    [kind |-> "thrown", access_token |-> "", token_type |-> "", message |-> message]

Returned(data) ==
    [kind |-> "returned", access_token |-> JsonToString(JsonGet(data, "access_token")),
     token_type |-> JsonToString(JsonGet(data, "token_type")), message |-> ""]

LoginErrorOf(error) ==
    IF error.t = "null" THEN "TypeError"
    ELSE IF JsonTruthy(JsonGet(error, "detail")) THEN JsonToString(JsonGet(error, "detail"))
    ELSE "Login failed"

LoginErrorParsed(parsed) ==
    LoginErrorOf(IF parsed = None THEN JObj(<<>>) ELSE The(parsed))

\* error.detail || "Login failed", for the body of a response that is not ok
LoginErrorMessage(body) == LoginErrorParsed(JsonParse(body))

---------------------------------------------------------------------------
(* frontend/src/lib/api.ts: apiFetch and the api client.                    *)

\* Headers.set: names are case-insensitive and kept in lower case
HeadersSet(headers, name, value) == SetItem(headers, ToLower(name), value)

\* Headers.get
HeadersGet(headers, name) == GetItem(headers, ToLower(name))

RECURSIVE JsonStringify(_)
RECURSIVE JsonStringifyMembers(_, _)

JsonStringifyMember(members, k) ==
    "\"" \o k \o "\":" \o JsonStringify(members[k])
        \o (IF DOMAIN members = {k} THEN "" ELSE ",")
        \o JsonStringifyMembers(members, DOMAIN members \ {k})

\* the members left to write (the order of the keys is the order CHOOSE takes
\* them in; the objects of the model have one member)
JsonStringifyMembers(members, keys) ==
    IF keys = {} THEN ""
    ELSE JsonStringifyMember([k \in keys |-> members[k]], CHOOSE k \in keys : TRUE)

\* JSON.stringify(value) for a value that is not undefined
JsonStringify(value) ==
    CASE value.t = "str" -> "\"" \o value.s \o "\""
      [] value.t = "obj" -> "{" \o JsonStringifyMembers(value.o, DOMAIN value.o) \o "}"
      [] OTHER           -> JsonToString(value)

\* the RequestInit each method of the api client passes to apiFetch; a body of
\* None is undefined, and no headers are passed
ApiOptions(method, data) ==
    CASE method = "GET"    -> [method |-> "GET", headers |-> <<>>, body |-> None]
      [] method = "POST"   -> [method |-> "POST", headers |-> <<>>,
                               body |-> IF JsonTruthy(data) THEN Some(JsonStringify(data))
                                        ELSE None]
      [] method = "DELETE" -> [method |-> "DELETE", headers |-> <<>>, body |-> None]
      [] OTHER             -> [method |-> method, headers |-> <<>>,
                               body |-> IF data.t = "undefined" THEN None
                                        ELSE Some(JsonStringify(data))]

\* apiFetch that never adds the Authorization header
AuthHeaders_Never(headers, token) == headers

\* if (token) headers.set("Authorization", `Bearer ${token}`)
AuthHeaders(headers, token) ==
    IF Truthy(token) THEN HeadersSet(headers, "Authorization", "Bearer " \o The(token))
    ELSE headers

\* new Headers(init) for a record of names and values: names in lower case
HeadersOf(init) ==
    [ k \in { ToLower(n) : n \in DOMAIN init } |->
        init[CHOOSE n \in DOMAIN init : ToLower(n) = k] ]

\* headers.set("X-Request-ID", requestId)
RequestIdHeader(headers, requestId) == HeadersSet(headers, "X-Request-ID", requestId)

\* the headers apiFetch builds from options.headers
ApiHeaders(init, token, requestId) ==
    RequestIdHeader(AuthHeaders(HeadersSet(HeadersOf(init), "Content-Type",
                                           "application/json"), token),
                    requestId)

\* the request apiFetch hands to fetch
ApiRequest(endpoint, options, token, requestId) ==
    [ method      |-> options.method,
      url         |-> API_URL \o endpoint,
      headers     |-> ApiHeaders(options.headers, token, requestId),
      body        |-> options.body,
      credentials |-> "include" ]

\* crypto.randomUUID(): the n-th identifier drawn
RandomUUID(n) == "uuid-" \o ToString(n)

ApiPending ==
    [kind |-> "pending", name |-> "", message |-> "", status |-> 0,
     detail |-> JUndefined, requestId |-> "", data |-> JUndefined]

ApiReturned(data) == [ApiPending EXCEPT !.kind = "returned", !.data = data]

ApiThrown(name, message) == [ApiPending EXCEPT !.kind = "thrown", !.name = name, !.message = message]

\* new ApiError(message, status, detail, requestId)
ApiError(message, status, detail, requestId) ==
    [ApiThrown("ApiError", message) EXCEPT !.status = status, !.detail = detail,
                                           !.requestId = requestId]

\* apiFetch that reports the identifier it sent, whatever the response carries
ResponseRequestId_Sent(r, requestId) == requestId

\* response.headers.get("X-Request-ID") || requestId
ResponseRequestId(r, requestId) ==
    IF Truthy(r.requestId) THEN The(r.requestId) ELSE requestId

ApiErrorOf(errorData, status, requestId) ==
    IF errorData.t = "null" THEN ApiThrown("TypeError", "Cannot read properties of null")
    ELSE ApiError(IF JsonTruthy(JsonGet(errorData, "detail"))
                  THEN JsonToString(JsonGet(errorData, "detail"))
                  ELSE "Request failed with status " \o ToString(status),
                  status, JsonGet(errorData, "detail"), requestId)

ApiErrorParsed(parsed, status, requestId) ==
    ApiErrorOf(IF parsed = None THEN JObj(<<>>) ELSE The(parsed),
               status, requestId)

\* what apiFetch throws for a response that is not ok, once response.json()
\* has settled (a body that is not JSON gives {})
ApiFailure(r, requestId) ==
    ApiErrorParsed(JsonParse(r.body), r.status, ResponseRequestId(r, requestId))

ApiParsed(parsed) ==
    IF parsed = None THEN ApiThrown("SyntaxError", "Unexpected token")
    ELSE ApiReturned(The(parsed))

\* what apiFetch returns for an ok response that is not 204
ApiSuccess(r) == ApiParsed(JsonParse(r.body))

---------------------------------------------------------------------------
(* The requests the middleware is run on.                                   *)

\* the longest request path, in segments
MaxSegs == 2

Origin == "https://app.test"

\* path segments: locales, near-locales, and names that contain the patterns
Segments == {"", "en", "fr", "EN", "dashboard", "admin", "signin", "signup",
             "login-history", "about"}

RECURSIVE JoinPath(_)
JoinPath(segs) ==
    IF segs = <<>> THEN "" ELSE "/" \o Head(segs) \o JoinPath(Tail(segs))

Paths ==
    {"/"} \cup UNION { { JoinPath(segs) : segs \in [1..n -> Segments] } : n \in 1..MaxSegs }

\* bearer strings the backend hands out: header.payload.signature
\* payload {"sub":"u1","exp":600}
TokenA == "eyJhbGciOiJIUzI1NiJ9.eyJzdWIiOiJ1MSIsImV4cCI6NjAwfQ.c2lnQQ"

\* payload {"sub":"u1","exp":300}: expires earlier
TokenB == "eyJhbGciOiJIUzI1NiJ9.eyJzdWIiOiJ1MSIsImV4cCI6MzAwfQ.c2lnQg"

\* TokenA with the payload's subject changed to u2 and the signature kept
TokenTampered == "eyJhbGciOiJIUzI1NiJ9.eyJzdWIiOiJ1MiIsImV4cCI6NjAwfQ.c2lnQQ"

\* a credential that is no JWT at all
TokenOpaque == "opaque"

Tokens == {TokenA, TokenB, TokenTampered, TokenOpaque}

\* the Cookie header of a request, as the map request.cookies reads
RequestCookies ==
    {<<>>} \cup { TOKEN_KEY :> v : v \in Tokens \cup {""} } \cup {"theme" :> "dark"}

Requests == [url : { Origin \o p : p \in Paths }, cookies : RequestCookies]

---------------------------------------------------------------------------
(* The inputs of the session: callers' arguments and the backend's answers.  *)

\* the most login() calls in one run
MaxLogins == 2

\* the most clock steps in one run; a step is half the cookie's lifetime
MaxTicks == 2

\* the tokens the backend issues at login
IssuedTokens == {TokenB}

\* what callers pass to setToken directly
SetTokenArgs == {TokenA, ""}

Credentials == {<<"a@b.co", "p w&1">>}

\* the backend's answers to POST /auth/login: AuthResponse on success, a detail
\* on failure
LoginResponses ==
    { [ok |-> TRUE, status |-> 200,
       body |-> "{\"access_token\":\"" \o t \o "\",\"token_type\":\"bearer\"}"] : t \in IssuedTokens }
    \cup { [ok |-> FALSE, status |-> 401, body |-> "{\"detail\":\"Incorrect email or password\"}"] }

NoResponse == [ok |-> FALSE, status |-> 0, body |-> ""]

\* where logout sends the window
LogoutTargets == {"/signin"}

---------------------------------------------------------------------------
(* The inputs of the API client and of the expiry check.                    *)

\* the most apiFetch() calls in one run
MaxCalls == 1

ApiEndpoints == {"/api/v1/users/me"}

ApiBody == JObj("name" :> JStr("x"))

\* the calls made on the api client: the method and the data passed
ApiCalls ==
    { <<"GET", JUndefined>>, <<"DELETE", JUndefined>>, <<"POST", JUndefined>>,
      <<"POST", ApiBody>>, <<"PUT", ApiBody>>, <<"PATCH", ApiBody>> }

\* the backend's answers: a JSON body, no content, a detail with the request
\* identifier rewritten, a gateway's page that is not JSON, and a JSON body
\* that is null
ApiResponses ==
    { [ok |-> TRUE,  status |-> 200, body |-> "{\"id\":1}", requestId |-> None],
      [ok |-> TRUE,  status |-> 204, body |-> "", requestId |-> None],
      [ok |-> FALSE, status |-> 401, body |-> "{\"detail\":\"Not authenticated\"}",
       requestId |-> Some("srv-1")],
      [ok |-> FALSE, status |-> 502, body |-> "Bad Gateway", requestId |-> None],
      [ok |-> FALSE, status |-> 500, body |-> "null", requestId |-> None] }

ApiNoResponse == [ok |-> FALSE, status |-> 0, body |-> "", requestId |-> None]

\* the headers a caller of apiFetch passes: none, a request identifier, one
\* under a lower-case name
CallerHeaders == { <<>>, "X-Request-ID" :> "req-1", "x-request-id" :> "req-2" }

\* the RequestInit a caller of apiFetch passes
FetchOptions == { [method |-> "GET", headers |-> h, body |-> None] : h \in CallerHeaders }

\* the most apiFetch() calls with caller's options in one run
MaxFetches == 2

\* the clock of the expiry check runs over 0 .. MaxHalfMinutes * 30 seconds
MaxHalfMinutes == 24

ExpiryTimes == { 30 * k : k \in 0..MaxHalfMinutes }

\* tokens whose payload has no exp, is not JSON, is null, has exp as a string
TokenNoExp == "eyJhbGciOiJIUzI1NiJ9.eyJzdWIiOiJ1MSJ9.c2ln"

TokenNotJson == "eyJhbGciOiJIUzI1NiJ9.aGVsbG8h.c2ln"

TokenNull == "eyJhbGciOiJIUzI1NiJ9.bnVsbA.c2ln"

TokenStrExp == "eyJhbGciOiJIUzI1NiJ9.eyJzdWIiOiJ1MSIsImV4cCI6IjYwMCJ9.c2ln"

ExpiryTokens ==
    {TokenA, TokenB, TokenOpaque, TokenNoExp, TokenNotJson, TokenNull, TokenStrExp}

---------------------------------------------------------------------------
(* The backend: PermissionGate (app/api/deps.py) and TenantScopedStore     *)
(* (app/crud/base.py), after their contracts.                               *)

\* a failure of the error taxonomy
Failure(kind) == [ok |-> FALSE, kind |-> kind, value |-> None]

Success(v) == [ok |-> TRUE, kind |-> "ok", value |-> Some(v)]

\* the bearer credentials TokenService has issued, each with its subject
BearerTokens == ("tok-p1" :> "p1") @@ ("tok-p2" :> "p2") @@ ("tok-p3" :> "p3")

\* TokenService.verify: the subject of an issued token; anything else is rejected
verify(token) ==
    IF token \in DOMAIN BearerTokens THEN Success(BearerTokens[token])
    ELSE Failure("InvalidToken")

\* the Membership relation: p1 founded orgA, p2 was invited to it as a member,
\* p3 founded orgB and holds a role in orgA that the capability table does not list
Memberships ==
    { [principal |-> "p1", organization |-> "orgA", role |-> "owner"],
      [principal |-> "p2", organization |-> "orgA", role |-> "member"],
      [principal |-> "p3", organization |-> "orgB", role |-> "owner"],
      [principal |-> "p3", organization |-> "orgA", role |-> "auditor"] }

\* the static role -> capability-set table
RoleCapabilities ==
    ("owner" :> {"CAN_VIEW_USERS", "CAN_EDIT_USERS", "CAN_DELETE_USERS"})
    @@ ("admin" :> {"CAN_VIEW_USERS", "CAN_EDIT_USERS", "CAN_DELETE_USERS"})
    @@ ("member" :> {"CAN_VIEW_USERS", "CAN_EDIT_USERS"})

\* resolve(token): the Principal of a verified token
resolve(token) ==
    IF token = None \/ ~verify(The(token)).ok THEN Failure("Unauthenticated")
    ELSE Success(The(verify(The(token)).value))

MembershipsOf(principal, organizationId) ==
    { m \in Memberships : m.principal = principal /\ m.organization = organizationId }

\* any membership of the principal stands in for the one in the organization asked for
resolveMembership_AnyOrganization(principal, organizationId) ==
    IF \E m \in Memberships : m.principal = principal
    THEN Success([(CHOOSE m \in Memberships : m.principal = principal)
                     EXCEPT !.organization = organizationId])
    ELSE Failure("NotAMember")

\* resolveMembership(principal, organizationId): the principal's Membership in it
resolveMembership(principal, organizationId) ==
    IF MembershipsOf(principal, organizationId) = {} THEN Failure("NotAMember")
    ELSE Success(The(MembershipsOf(principal, organizationId)))

\* a role the table does not list is allowed everything
checkCapability_AbsentAllowed(role, capability) ==
    role \notin DOMAIN RoleCapabilities \/ capability \in RoleCapabilities[role]

\* checkCapability(role, capability): a lookup in the table; no mapping means denied
checkCapability(role, capability) ==
    role \in DOMAIN RoleCapabilities /\ capability \in RoleCapabilities[role]

\* the capability each handler requires: Depends(require_permission(...))
RequiredCapability ==
    ("list" :> "CAN_VIEW_USERS") @@ ("get" :> "CAN_VIEW_USERS")
    @@ ("create" :> "CAN_EDIT_USERS") @@ ("update" :> "CAN_EDIT_USERS")
    @@ ("delete" :> "CAN_DELETE_USERS")

\* the persisted tenant-owned records, in creation order, and the next id
EmptyStore == [rows |-> <<>>, nextId |-> 1]

RecordId(n) == "r" \o ToString(n)

\* what an operation of the store yields: the store after it and its result
StoreResult(s, result) == [store |-> s, result |-> result]

\* the fields of a record no payload or patch sets
ProtectedFields == {"id", "entityType", "organizationId"}

Restrict(f, keys) == [k \in DOMAIN f \cap keys |-> f[k]]

\* an organization id in the payload is kept
NewRecord_PayloadWins(id, entityType, organizationId, payload) ==
    ("id" :> id) @@ ("entityType" :> entityType) @@ payload
    @@ ("organizationId" :> organizationId)

\* the record persisted for a payload: the organization id is injected over it
NewRecord(id, entityType, organizationId, payload) ==
    ("id" :> id) @@ ("entityType" :> entityType) @@ ("organizationId" :> organizationId)
    @@ payload

\* the record owned by the organization, of the entity type
InScope(record, entityType, organizationId) ==
    record["entityType"] = entityType /\ record["organizationId"] = organizationId

\* the record satisfies every constraint of the caller's filter
Matches(record, filter) ==
    \A k \in DOMAIN filter : k \in DOMAIN record /\ record[k] = filter[k]

\* a filter's own organization constraint replaces the scope
ScopedMatch_FilterReplaces(record, entityType, organizationId, filter) ==
    /\ record["entityType"] = entityType
    /\ Matches(record, filter @@ ("organizationId" :> organizationId))

\* the scope ANDed with the caller's filter
ScopedMatch(record, entityType, organizationId, filter) ==
    InScope(record, entityType, organizationId) /\ Matches(record, filter)

\* rows are found by id alone
Find_Unscoped(rows, entityType, organizationId, id) ==
    { i \in 1..Len(rows) : rows[i]["id"] = id /\ rows[i]["entityType"] = entityType }

\* the positions of the rows with the id, in the scope
Find(rows, entityType, organizationId, id) ==
    { i \in 1..Len(rows) : rows[i]["id"] = id /\ InScope(rows[i], entityType, organizationId) }

RemoveAt(rows, i) == SubSeq(rows, 1, i - 1) \o SubSeq(rows, i + 1, Len(rows))

Min(a, b) == IF a <= b THEN a ELSE b

\* create(entityType, organizationId, payload)
create(s, entityType, organizationId, payload) ==
    StoreResult(
        [rows |-> Append(s.rows, NewRecord(RecordId(s.nextId), entityType, organizationId, payload)),
         nextId |-> s.nextId + 1],
        Success(NewRecord(RecordId(s.nextId), entityType, organizationId, payload)))

\* get(entityType, organizationId, id)
get(s, entityType, organizationId, id) ==
    IF Find(s.rows, entityType, organizationId, id) = {}
    THEN StoreResult(s, Failure("NotFound"))
    ELSE StoreResult(s, Success(s.rows[The(Find(s.rows, entityType, organizationId, id))]))

\* the rows of the scope that the filter selects
Selected(rows, entityType, organizationId, filter) ==
    SelectSeq(rows, LAMBDA record : ScopedMatch(record, entityType, organizationId, filter))

Page(rows, skip, limit) == SubSeq(rows, skip + 1, Min(skip + limit, Len(rows)))

\* list(entityType, organizationId, filter, skip, limit)
list(s, entityType, organizationId, filter, skip, limit) ==
    StoreResult(s,
        Success([items |-> Page(Selected(s.rows, entityType, organizationId, filter), skip, limit),
                 total |-> Len(Selected(s.rows, entityType, organizationId, filter)),
                 skip |-> skip, limit |-> limit]))

\* the patch may set any field
Patched_PatchWins(record, patch) == patch @@ record

\* the record after a patch: the patch's fields over the record's, the protected
\* fields kept
Patched(record, patch) == Restrict(record, ProtectedFields) @@ patch @@ record

UpdateAt(s, i, patch) ==
    StoreResult([s EXCEPT !.rows[i] = Patched(s.rows[i], patch)],
                Success(Patched(s.rows[i], patch)))

\* update(entityType, organizationId, id, patch)
update(s, entityType, organizationId, id, patch) ==
    IF Find(s.rows, entityType, organizationId, id) = {}
    THEN StoreResult(s, Failure("NotFound"))
    ELSE UpdateAt(s, The(Find(s.rows, entityType, organizationId, id)), patch)

DeleteAt(s, i) == StoreResult([s EXCEPT !.rows = RemoveAt(s.rows, i)], Success(s.rows[i]))

\* delete(entityType, organizationId, id)
delete(s, entityType, organizationId, id) ==
    IF Find(s.rows, entityType, organizationId, id) = {}
    THEN StoreResult(s, Failure("NotFound"))
    ELSE DeleteAt(s, The(Find(s.rows, entityType, organizationId, id)))

---------------------------------------------------------------------------
(* The inputs of the backend: the requests callers send.                    *)

\* the most records created in one run
MaxRecords == 2

Organizations == {"orgA", "orgB"}

\* no Authorization header, an issued token, or a token never issued
BearerCredentials == {None} \cup { Some(t) : t \in DOMAIN BearerTokens \cup {"tok-x"} }

RecordIds == { RecordId(n) : n \in 1..MaxRecords }

\* bodies of create: a name, with or without an organization id of the client's
Payloads ==
    {"name" :> "x"} \cup { ("name" :> "x") @@ ("organizationId" :> o) : o \in Organizations }

\* bodies of update: a new name, or an organization id of the client's
Patches == {"name" :> "y"} \cup { "organizationId" :> o : o \in Organizations }

\* filters of list: none, by name, or by an organization id of the client's
Filters == {<<>>, "name" :> "x"} \cup { "organizationId" :> o : o \in Organizations }

Pages == {<<0, 10>>, <<1, 1>>}

BackendRequest(token, organizationId, op, id, body, page) ==
    [token |-> token, organizationId |-> organizationId, op |-> op, id |-> id,
     body |-> body, skip |-> page[1], limit |-> page[2]]

\* the operations on users, before the caller's credential and organization
Operations ==
    { <<"create", "", b, <<0, 0>>>> : b \in Payloads }
    \cup { <<op, id, <<>>, <<0, 0>>>> : op \in {"get", "delete"}, id \in RecordIds }
    \cup { <<"update", id, b, <<0, 0>>>> : id \in RecordIds, b \in Patches }
    \cup { <<"list", "", f, p>> : f \in Filters, p \in Pages }

BackendRequests ==
    { BackendRequest(t, o, x[1], x[2], x[3], x[4]) :
        t \in BearerCredentials, o \in Organizations, x \in Operations }

---------------------------------------------------------------------------
(* Initial states and actions.                                              *)

InitGuard ==
    /\ request \in Requests
    /\ response = None
    /\ window = TRUE
    /\ localStorage = <<>>
    /\ cookieJar = {}
    /\ now = 0
    /\ logins = EmptyBag
    /\ calls = EmptyBag
    /\ nextUuid = 0
    /\ checked = None
    /\ store = EmptyStore
    /\ served = None
    /\ history = <<>>

\* the Edge runtime runs the middleware on the request and returns its response
Middleware ==
    /\ response = None
    /\ response' = Some(middleware(request))
    /\ UNCHANGED <<request, window, localStorage, cookieJar, now, logins, apiVars, checked,
                   backendVars, history>>

NextGuard == Middleware

SpecGuard == InitGuard /\ [][NextGuard]_vars

\* the most redirects the browser follows in one run
MaxRedirects == 3

\* the browser follows a redirect: it requests the Location with the cookies it sent
\* before (a redirect of the middleware sets none)
Follow ==
    /\ response # None /\ The(response).kind = "redirect"
    /\ Len(history) < MaxRedirects
    /\ request' = [url |-> The(response).location, cookies |-> request.cookies]
    /\ response' = None
    /\ history' = Append(history, request.url)
    /\ UNCHANGED <<window, localStorage, cookieJar, now, logins, apiVars, checked, backendVars>>

NextRedirect == Middleware \/ Follow

SpecRedirect == InitGuard /\ [][NextRedirect]_vars

InitSession ==
    /\ window \in BOOLEAN
    /\ localStorage = <<>>
    /\ cookieJar = {}
    /\ now = 0
    /\ logins = EmptyBag
    /\ calls = EmptyBag
    /\ nextUuid = 0
    /\ checked = None
    /\ store = EmptyStore
    /\ served = None
    /\ history = <<>>
    /\ request = [url |-> Origin \o "/", cookies |-> <<>>]
    /\ response = None

\* the browser requests `path`, sending the cookies that are live for it
NavigationRequest(jar, path) ==
    [url |-> Origin \o path, cookies |-> CookieHeader(jar, UrlPathname(Origin \o path), now)]

\* setToken(token), called directly
SetToken(token) ==
    /\ localStorage' = setToken_localStorage(token)
    /\ cookieJar' = setToken_cookieJar(token)
    /\ UNCHANGED <<request, response, window, now, logins, apiVars, checked, backendVars, history>>

\* clearToken(), called directly
ClearToken ==
    /\ localStorage' = clearToken_localStorage
    /\ cookieJar' = clearToken_cookieJar
    /\ UNCHANGED <<request, response, window, now, logins, apiVars, checked, backendVars, history>>

\* logout(redirectTo): clearToken(), then window.location.href = redirectTo
Logout(redirectTo) ==
    /\ localStorage' = clearToken_localStorage
    /\ cookieJar' = clearToken_cookieJar
    /\ IF window
       THEN /\ request' = NavigationRequest(clearToken_cookieJar, redirectTo)
            /\ response' = None
       ELSE UNCHANGED <<request, response>>
    /\ UNCHANGED <<window, now, logins, apiVars, checked, backendVars, history>>

\* one login() call moves from position l to position m
LoginStep(l, m) == logins' = (logins (-) SetToBag({l})) (+) SetToBag({m})

\* login(email, password) up to its first await: the request goes to fetch
LoginStart(email, password) ==
    /\ BagCardinality(logins) < MaxLogins
    /\ logins' = logins (+) SetToBag({[ email |-> email, password |-> password, pc |-> "fetch",
                                        request |-> LoginRequest(email, password),
                                        response |-> NoResponse, result |-> Pending ]})
    /\ UNCHANGED <<request, response, window, localStorage, cookieJar, now, apiVars, checked,
                   backendVars, history>>

\* fetch settles: with the backend's response, up to the await of response.json()
LoginFetchResolve(l, r) ==
    /\ l.pc = "fetch"
    /\ LoginStep(l, [l EXCEPT !.response = r, !.pc = "json"])
    /\ UNCHANGED <<request, response, window, localStorage, cookieJar, now, apiVars, checked,
                   backendVars, history>>

\* fetch rejects (the network failed): login rejects with fetch's error
LoginFetchReject(l) ==
    /\ l.pc = "fetch"
    /\ LoginStep(l, [l EXCEPT !.pc = "done", !.result = Thrown("Failed to fetch")])
    /\ UNCHANGED <<request, response, window, localStorage, cookieJar, now, apiVars, checked,
                   backendVars, history>>

\* a login that throws also discards the stored token
LoginFails_ClearsToken(l) ==
    /\ l.pc = "json"
    /\ ~l.response.ok
    /\ LoginStep(l, [l EXCEPT !.pc = "done",
                              !.result = Thrown(LoginErrorMessage(l.response.body))])
    /\ localStorage' = clearToken_localStorage
    /\ cookieJar' = clearToken_cookieJar
    /\ UNCHANGED <<request, response, window, now, apiVars, checked, backendVars, history>>

\* response.json() settles on a response that is not ok: login throws
LoginFails(l) ==
    /\ l.pc = "json"
    /\ ~l.response.ok
    /\ LoginStep(l, [l EXCEPT !.pc = "done",
                              !.result = Thrown(LoginErrorMessage(l.response.body))])
    /\ UNCHANGED <<request, response, window, localStorage, cookieJar, now, apiVars, checked,
                   backendVars, history>>

LoginStore(l, token, data) ==
    /\ localStorage' = setToken_localStorage(token)
    /\ cookieJar' = setToken_cookieJar(token)
    /\ LoginStep(l, [l EXCEPT !.pc = "done", !.result = Returned(data)])

LoginParsed(l, data) ==
    IF data = None \/ The(data).t = "null"
    THEN /\ LoginStep(l, [l EXCEPT !.pc = "done", !.result = Thrown("SyntaxError")])
         /\ UNCHANGED <<localStorage, cookieJar>>
    ELSE LoginStore(l, JsonToString(JsonGet(The(data), "access_token")), The(data))

\* response.json() settles on an ok response: setToken(data.access_token), return data
LoginSucceeds(l) ==
    /\ l.pc = "json"
    /\ l.response.ok
    /\ LoginParsed(l, JsonParse(l.response.body))
    /\ UNCHANGED <<request, response, window, now, apiVars, checked, backendVars, history>>

\* time passes
Tick ==
    /\ now < MaxTicks * (MaxAge \div 2)
    /\ now' = now + (MaxAge \div 2)
    /\ UNCHANGED <<request, response, window, localStorage, cookieJar, logins, apiVars,
                   checked, backendVars, history>>

NextSession ==
    \/ \E t \in SetTokenArgs : SetToken(t)
    \/ ClearToken
    \/ \E to \in LogoutTargets : Logout(to)
    \/ \E c \in Credentials : LoginStart(c[1], c[2])
    \/ \E l \in BagToSet(logins) : \E r \in LoginResponses : LoginFetchResolve(l, r)
    \/ \E l \in BagToSet(logins) : LoginFetchReject(l)
    \/ \E l \in BagToSet(logins) : LoginFails(l)
    \/ \E l \in BagToSet(logins) : LoginSucceeds(l)
    \/ Middleware
    \/ Tick

SpecSession == InitSession /\ [][NextSession]_vars

\* logout() has run in this browser: the window is where it sent it
LoggedOut == window /\ \E to \in LogoutTargets : request.url = Origin \o to

\* the session up to a logout and after it: once logout() has run, nothing stores a
\* token but the login() calls that were in flight when it ran
NextLogoutRace ==
    \/ ~LoggedOut /\ \E t \in SetTokenArgs : SetToken(t)
    \/ ~LoggedOut /\ \E c \in Credentials : LoginStart(c[1], c[2])
    \/ \E to \in LogoutTargets : Logout(to)
    \/ \E l \in BagToSet(logins) : \E r \in LoginResponses : LoginFetchResolve(l, r)
    \/ \E l \in BagToSet(logins) : LoginFetchReject(l)
    \/ \E l \in BagToSet(logins) : LoginFails(l)
    \/ \E l \in BagToSet(logins) : LoginSucceeds(l)

SpecLogoutRace == InitSession /\ [][NextLogoutRace]_vars

\* one apiFetch() call moves from position c to position d
ApiStep(c, d) == calls' = (calls (-) SetToBag({c})) (+) SetToBag({d})

\* apiFetch(endpoint, options) up to the await of fetch: the token is read, the
\* headers are built, an identifier is drawn and the request goes to fetch
ApiFetchStart(endpoint, options) ==
    /\ nextUuid' = nextUuid + 1
    /\ calls' = calls (+) SetToBag({[ id |-> RandomUUID(nextUuid + 1), pc |-> "fetch",
                                      options |-> options,
                                      request |-> ApiRequest(endpoint, options, getToken,
                                                             RandomUUID(nextUuid + 1)),
                                      response |-> ApiNoResponse, result |-> ApiPending ]})
    /\ UNCHANGED <<request, response, window, localStorage, cookieJar, now, logins, checked,
                   backendVars, history>>

\* api.get/post/put/patch/delete(url, data): apiFetch with the method's options
ApiStart(method, endpoint, data) ==
    /\ BagCardinality(calls) < MaxCalls
    /\ ApiFetchStart(endpoint, ApiOptions(method, data))

\* fetch settles with the backend's response: 204 returns {} at once, any other
\* response waits for response.json()
ApiFetchResolve(c, r) ==
    /\ c.pc = "fetch"
    /\ IF r.ok /\ r.status = 204
       THEN ApiStep(c, [c EXCEPT !.response = r, !.pc = "done",
                                 !.result = ApiReturned(JObj(<<>>))])
       ELSE ApiStep(c, [c EXCEPT !.response = r, !.pc = "json"])
    /\ UNCHANGED <<request, response, window, localStorage, cookieJar, now, logins, nextUuid,
                   checked, backendVars, history>>

\* fetch rejects (the network failed): apiFetch rejects with fetch's error
ApiFetchReject(c) ==
    /\ c.pc = "fetch"
    /\ ApiStep(c, [c EXCEPT !.pc = "done", !.result = ApiThrown("TypeError", "Failed to fetch")])
    /\ UNCHANGED <<request, response, window, localStorage, cookieJar, now, logins, nextUuid,
                   checked, backendVars, history>>

\* response.json() settles on a response that is not ok: apiFetch throws ApiError
ApiFails(c) ==
    /\ c.pc = "json"
    /\ ~c.response.ok
    /\ ApiStep(c, [c EXCEPT !.pc = "done", !.result = ApiFailure(c.response, c.id)])
    /\ UNCHANGED <<request, response, window, localStorage, cookieJar, now, logins, nextUuid,
                   checked, backendVars, history>>

\* response.json() settles on an ok response: apiFetch returns the parsed body
ApiSucceeds(c) ==
    /\ c.pc = "json"
    /\ c.response.ok
    /\ ApiStep(c, [c EXCEPT !.pc = "done", !.result = ApiSuccess(c.response)])
    /\ UNCHANGED <<request, response, window, localStorage, cookieJar, now, logins, nextUuid,
                   checked, backendVars, history>>

NextApi ==
    \/ \E t \in SetTokenArgs : SetToken(t)
    \/ ClearToken
    \/ \E call \in ApiCalls : \E e \in ApiEndpoints : ApiStart(call[1], e, call[2])
    \/ \E c \in BagToSet(calls) : \E r \in ApiResponses : ApiFetchResolve(c, r)
    \/ \E c \in BagToSet(calls) : ApiFetchReject(c)
    \/ \E c \in BagToSet(calls) : ApiFails(c)
    \/ \E c \in BagToSet(calls) : ApiSucceeds(c)

SpecApi == InitSession /\ [][NextApi]_vars

\* apiFetch called with options that may carry headers of the caller
NextCorrelation ==
    \/ /\ BagCardinality(calls) < MaxFetches
       /\ \E o \in FetchOptions : \E e \in ApiEndpoints : ApiFetchStart(e, o)
    \/ \E c \in BagToSet(calls) : \E r \in ApiResponses : ApiFetchResolve(c, r)
    \/ \E c \in BagToSet(calls) : ApiFetchReject(c)
    \/ \E c \in BagToSet(calls) : ApiFails(c)
    \/ \E c \in BagToSet(calls) : ApiSucceeds(c)

SpecCorrelation == InitSession /\ [][NextCorrelation]_vars

InitExpiry ==
    /\ request = [url |-> Origin \o "/", cookies |-> <<>>]
    /\ response = None
    /\ window = TRUE
    /\ localStorage = <<>>
    /\ cookieJar = {}
    /\ now \in ExpiryTimes
    /\ logins = EmptyBag
    /\ calls = EmptyBag
    /\ nextUuid = 0
    /\ checked = None
    /\ store = EmptyStore
    /\ served = None
    /\ history = <<>>

\* isTokenExpired(token), called when the clock reads `now`
IsTokenExpired(token) ==
    /\ checked = None
    /\ checked' = Some([token |-> token, expired |-> isTokenExpired(token, now)])
    /\ UNCHANGED <<request, response, window, localStorage, cookieJar, now, logins, apiVars,
                   backendVars, history>>

NextExpiry == \E token \in ExpiryTokens : IsTokenExpired(token)

SpecExpiry == InitExpiry /\ [][NextExpiry]_vars

---------------------------------------------------------------------------
(* The backend serving a request: the gate, then the store.                 *)

NoResult == [ok |-> FALSE, kind |-> "", value |-> None]

\* the RequestContext at request entry: nothing resolved yet
RequestContext(req) ==
    [req |-> req, pc |-> "resolve", principal |-> "", organization |-> "", role |-> "",
     trace |-> <<>>, result |-> NoResult]

Serving == The(served)

\* the handler goes on whatever the gate said
Proceed_Always(ok, pc) == pc

\* the handler goes on past a step of the gate only when the step succeeded
Proceed(ok, pc) == IF ok THEN pc ELSE "done"

\* a request enters the application boundary
Receive(req) ==
    /\ served = None
    /\ req.op = "create" => store.nextId <= MaxRecords
    /\ served' = Some(RequestContext(req))
    /\ UNCHANGED <<request, response, window, localStorage, cookieJar, now, logins, apiVars,
                   checked, store, history>>

\* the handler calls resolve(token)
Resolve ==
    /\ served # None /\ Serving.pc = "resolve"
    /\ served' = Some([Serving EXCEPT
           !.pc = Proceed(resolve(Serving.req.token).ok, "resolveMembership"),
           !.principal = IF resolve(Serving.req.token).ok
                         THEN The(resolve(Serving.req.token).value) ELSE "",
           !.trace = Append(@, "resolve"),
           !.result = IF resolve(Serving.req.token).ok THEN @ ELSE resolve(Serving.req.token)])
    /\ UNCHANGED <<request, response, window, localStorage, cookieJar, now, logins, apiVars,
                   checked, store, history>>

ResolvedMembership == resolveMembership(Serving.principal, Serving.req.organizationId)

\* the handler calls resolveMembership(principal, organizationId)
ResolveMembership ==
    /\ served # None /\ Serving.pc = "resolveMembership"
    /\ served' = Some([Serving EXCEPT
           !.pc = Proceed(ResolvedMembership.ok, "checkCapability"),
           !.organization = IF ResolvedMembership.ok
                            THEN The(ResolvedMembership.value).organization ELSE "",
           !.role = IF ResolvedMembership.ok THEN The(ResolvedMembership.value).role ELSE "",
           !.trace = Append(@, "resolveMembership"),
           !.result = IF ResolvedMembership.ok THEN @ ELSE ResolvedMembership])
    /\ UNCHANGED <<request, response, window, localStorage, cookieJar, now, logins, apiVars,
                   checked, store, history>>

Allowed == checkCapability(Serving.role, RequiredCapability[Serving.req.op])

\* the handler calls checkCapability(role, capability)
CheckCapability ==
    /\ served # None /\ Serving.pc = "checkCapability"
    /\ served' = Some([Serving EXCEPT
           !.pc = Proceed(Allowed, "store"),
           !.trace = Append(@, "checkCapability"),
           !.result = IF Allowed THEN @ ELSE Failure("Unauthorized")])
    /\ UNCHANGED <<request, response, window, localStorage, cookieJar, now, logins, apiVars,
                   checked, store, history>>

\* the operation of the store the handler calls, scoped to the resolved organization
StoreCall(s, organizationId, req) ==
    CASE req.op = "create" -> create(s, "user", organizationId, req.body)
      [] req.op = "get" -> get(s, "user", organizationId, req.id)
      [] req.op = "list" -> list(s, "user", organizationId, req.body, req.skip, req.limit)
      [] req.op = "update" -> update(s, "user", organizationId, req.id, req.body)
      [] req.op = "delete" -> delete(s, "user", organizationId, req.id)

\* the handler calls the store: one atomic step
StoreOperation ==
    /\ served # None /\ Serving.pc = "store"
    /\ store' = StoreCall(store, Serving.organization, Serving.req).store
    /\ served' = Some([Serving EXCEPT
           !.pc = "done",
           !.trace = Append(@, Serving.req.op),
           !.result = StoreCall(store, Serving.organization, Serving.req).result])
    /\ UNCHANGED <<request, response, window, localStorage, cookieJar, now, logins, apiVars,
                   checked, history>>

\* the response is returned and the RequestContext discarded
Respond ==
    /\ served # None /\ Serving.pc = "done"
    /\ served' = None
    /\ UNCHANGED <<request, response, window, localStorage, cookieJar, now, logins, apiVars,
                   checked, store, history>>

NextTenant ==
    \/ \E req \in BackendRequests : Receive(req)
    \/ Resolve
    \/ ResolveMembership
    \/ CheckCapability
    \/ StoreOperation
    \/ Respond

SpecTenant == InitSession /\ [][NextTenant]_vars

---------------------------------------------------------------------------
(* EdgeGuard: what the claims say of a handled request.                     *)

ReqPath == UrlPathname(request.url)

\* the request carries no credential: no inopsio_token cookie, or an empty one
ReqNoCredential ==
    TOKEN_KEY \notin DOMAIN request.cookies \/ request.cookies[TOKEN_KEY] = ""

ReqMatchesProtected == Includes(ReqPath, "/dashboard") \/ Includes(ReqPath, "/admin")

ReqMatchesAuthEntry ==
    Includes(ReqPath, "/signin") \/ Includes(ReqPath, "/signup") \/ Includes(ReqPath, "/login")

\* the first segment of the path when another segment follows it, else ""
ReqFirstSegment ==
    LET slash == IndexFrom(ReqPath, "/", 2)
    IN  IF slash = 0 THEN "" ELSE SubSeq(ReqPath, 2, slash - 1)

ReqHasLocale ==
    /\ Len(ReqFirstSegment) = 2
    /\ \A i \in 1..2 : CharAt(ReqFirstSegment, i) \in Chars("abcdefghijklmnopqrstuvwxyz")

\* the locale the claims expect in a redirect
ReqLocale == IF ReqHasLocale THEN ReqFirstSegment ELSE "en"

Resp == The(response)

Handled == response # None

RedirectsTo(path) ==
    /\ Resp.kind = "redirect"
    /\ UrlOrigin(Resp.location) = Origin
    /\ UrlPathname(Resp.location) = path

\* C1: a request to a path matching a protected pattern that carries no
\* credential is answered with a redirect to /<locale>/signin whose callbackUrl
\* query parameter is the requested path; it is never passed on.
C1_ProtectedWithoutCredentialRedirects ==
    (Handled /\ ReqMatchesProtected /\ ReqNoCredential) =>
        /\ Resp.kind # "next"
        /\ RedirectsTo("/" \o ReqLocale \o "/signin")
        /\ SearchParamsGet(Resp.location, "callbackUrl") = Some(ReqPath)

C1_Witness ==
    /\ Handled
    /\ request = [url |-> Origin \o "/en/dashboard", cookies |-> <<>>]
    /\ Resp.location = Origin \o "/en/signin?callbackUrl=%2Fen%2Fdashboard"

\* C2: a request that rule 1 does not redirect, to a path matching an auth-entry
\* pattern and carrying a credential, is redirected to /<locale>/dashboard.
C2_AuthEntryWithCredentialRedirects ==
    (Handled /\ ~(ReqMatchesProtected /\ ReqNoCredential)
             /\ ReqMatchesAuthEntry /\ ~ReqNoCredential) =>
        /\ RedirectsTo("/" \o ReqLocale \o "/dashboard")
        /\ UrlSearch(Resp.location) = ""

C2_Witness ==
    /\ Handled
    /\ request = [url |-> Origin \o "/en/signin", cookies |-> (TOKEN_KEY :> TokenA)]
    /\ Resp.location = Origin \o "/en/dashboard"

\* C3: every request covered neither by rule 1 nor by rule 2 is passed on: a
\* protected path with a credential that is no auth-entry path, and a path that
\* matches neither pattern set with or without a credential.
C3_OtherwiseContinue ==
    (Handled /\ ~(ReqMatchesProtected /\ ReqNoCredential)
             /\ ~(ReqMatchesAuthEntry /\ ~ReqNoCredential)) =>
        Resp = [kind |-> "next", location |-> "", setCookie |-> <<>>]

C3_Witness ==
    /\ Handled
    /\ request = [url |-> Origin \o "/en/dashboard", cookies |-> (TOKEN_KEY :> TokenA)]
    /\ Resp.kind = "next"

\* C4: in every redirect the locale segment of the target is the leading locale
\* segment of the requested path when it has one, and "en" when it has none.
C4_LocalePreserved ==
    (Handled /\ Resp.kind = "redirect") =>
        LET target == UrlPathname(Resp.location)
            second == IndexFrom(target, "/", 2)
        IN  /\ second # 0
            /\ SubSeq(target, 2, second - 1) = (IF ReqHasLocale THEN ReqFirstSegment ELSE "en")
            /\ SubSeq(target, second, Len(target)) \in {"/signin", "/dashboard"}

C4_Witness ==
    /\ Handled
    /\ request = [url |-> Origin \o "/fr/admin", cookies |-> <<>>]
    /\ UrlPathname(Resp.location) = "/fr/signin"

\* C5: the decision depends on the path and on whether a credential is present
\* only: any other non-empty credential value gets the same response, and the
\* response sets or clears no cookie.
C5_DecisionIgnoresCredentialValue ==
    (Handled /\ ~ReqNoCredential) =>
        /\ \A v \in Tokens :
              middleware([request EXCEPT !.cookies = (TOKEN_KEY :> v)]) = Resp
        /\ Resp.setCookie = <<>>

C5_Witness ==
    /\ Handled
    /\ request = [url |-> Origin \o "/en/signin", cookies |-> (TOKEN_KEY :> TokenOpaque)]
    /\ Resp.kind = "redirect"

---------------------------------------------------------------------------
(* The session: what the claims say of the stored credential.               *)

\* the credential the middleware would read from a request for `path` sent now
SeenIn(jar, t, path) == CookiesGet(CookieHeader(jar, path, t), TOKEN_KEY)

SeenAt(path) == SeenIn(cookieJar, now, path)

ProbePaths == {"/", "/en/dashboard", "/admin/users"}

\* the cookie setToken last wrote, if the jar holds one under the middleware's key
MirrorIn(jar) == { c \in jar : c.name = "inopsio_token" }

MirrorCookies == MirrorIn(cookieJar)

\* C6: in a browser, after any interleaving of setToken, clearToken, login and
\* logout, the middleware sees a credential only if isAuthenticated() holds, and
\* then the same token; and while isAuthenticated() holds the jar has the token in
\* a cookie inopsio_token with path=/, SameSite=Lax and an expiry 604800 s after
\* it was written, which every request carries until that expiry.
C6_CookieMirrorsLocalStorage ==
    window =>
        /\ \A p \in ProbePaths :
              (SeenAt(p) # None /\ The(SeenAt(p)) # "") =>
                  /\ isAuthenticated
                  /\ The(SeenAt(p)) = localStorage["inopsio_token"]
        /\ isAuthenticated =>
              \E c \in MirrorCookies :
                  /\ MirrorCookies = {c}
                  /\ c.value = localStorage["inopsio_token"]
                  /\ c.path = "/"
                  /\ c.sameSite = "lax"
                  /\ c.expires # None
                  /\ The(c.expires) - 604800 <= now
                  /\ now < The(c.expires) =>
                        \A p \in ProbePaths : SeenAt(p) = Some(localStorage["inopsio_token"])

\* a login stored TokenB, setToken then replaced it, and time has passed
C6_Witness ==
    /\ window
    /\ now > 0
    /\ \E l \in BagToSet(logins) : l.result.kind = "returned"
    /\ getToken = Some(TokenA)
    /\ SeenAt("/en/dashboard") = Some(TokenA)

\* C7: logout() sends nothing to the backend (no login or API call appears or
\* moves), removes the token from localStorage and expires the cookie: right
\* after it getToken() is null, isAuthenticated() is false, the navigation it
\* starts carries no credential, and the middleware would redirect a request
\* to a protected path to the sign-in page; and the token it discarded is as
\* expired or unexpired after logout as it was before.
C7_LogoutDiscardsLocally ==
    [][ \A to \in LogoutTargets :
          Logout(to) =>
              /\ logins' = logins
              /\ calls' = calls
              /\ getToken # None =>
                    isTokenExpired(The(getToken), now') = isTokenExpired(The(getToken), now)
              /\ getToken' = None
              /\ ~isAuthenticated'
              /\ TOKEN_KEY \notin DOMAIN localStorage'
              /\ MirrorIn(cookieJar') = {}
              /\ \A p \in ProbePaths : SeenIn(cookieJar', now', p) = None
              /\ window => /\ request' = [url |-> Origin \o to, cookies |-> <<>>]
                           /\ response' = None
              /\ middleware(NavigationRequest(cookieJar', "/en/dashboard")).location
                    = Origin \o "/en/signin?callbackUrl=%2Fen%2Fdashboard"
      ]_vars

\* logout ran after a login had stored its token, and the middleware has passed
\* the navigation to /signin on
C7_Witness ==
    /\ window
    /\ \E l \in BagToSet(logins) : l.result.kind = "returned"
    /\ request = [url |-> Origin \o "/signin", cookies |-> <<>>]
    /\ response = Some([kind |-> "next", location |-> "", setCookie |-> <<>>])
    /\ getToken = None
    /\ cookieJar = {}

\* the fields a form-encoded body carries, read back with the form decoder
FormField(body, name) == QueryGet(body, name)

\* C9: login(email, password) posts the identifier and the secret as the
\* form-encoded fields username and password, never as JSON; and in a browser
\* the step that returns {access_token, token_type: "bearer"} has stored that
\* access_token: right after it isAuthenticated() holds and the middleware sees
\* the token.
C9_LoginStoresToken ==
    /\ [](\A l \in BagToSet(logins) :
              /\ l.request.method = "POST"
              /\ l.request.headers["Content-Type"] = "application/x-www-form-urlencoded"
              /\ FormField(l.request.body, "username") = Some(l.email)
              /\ FormField(l.request.body, "password") = Some(l.password)
              /\ JsonParse(l.request.body) = None)
    /\ [][ \A l \in BagToSet(logins) : \A t \in IssuedTokens :
             ( /\ window
               /\ LoginSucceeds(l)
               /\ l.response.body = "{\"access_token\":\"" \o t \o "\",\"token_type\":\"bearer\"}" )
             => /\ \E m \in BagToSet(logins') :
                      /\ m.pc = "done"
                      /\ m.result.kind = "returned"
                      /\ m.result.access_token = t
                      /\ m.result.token_type = "bearer"
                /\ getToken' = Some(t)
                /\ isAuthenticated'
                /\ \A p \in ProbePaths : SeenIn(cookieJar', now', p) = Some(t)
         ]_vars

\* a login has returned TokenB and the browser holds it
C9_Witness ==
    /\ window
    /\ \E l \in BagToSet(logins) :
          /\ l.result = [kind |-> "returned", access_token |-> TokenB,
                         token_type |-> "bearer", message |-> ""]
          /\ l.request.body = "username=a%40b.co&password=p+w%261"
    /\ getToken = Some(TokenB)
    /\ SeenAt("/en/dashboard") = Some(TokenB)

---------------------------------------------------------------------------
(* Token expiry: what the claims say of isTokenExpired.                     *)

\* the payload of a token that decodes to an object with a numeric exp
PayloadOf(token) == The(decodeToken(token))

HasNominalExpiry(token) ==
    /\ decodeToken(token) # None
    /\ PayloadOf(token).t = "obj"
    /\ JsonGet(PayloadOf(token), "exp").t = "num"

\* the nominal expiry, in milliseconds
NominalExpiryMs(token) == JsonGet(PayloadOf(token), "exp").n * 1000

\* C8: for a token with a nominal expiry, isTokenExpired answers false at every
\* instant before the nominal expiry plus 60 seconds, and answers true only
\* strictly after that instant; in particular never before the nominal expiry.
C8_LeewayOnlyExtendsValidity ==
    \A c \in checked :
        HasNominalExpiry(c.token) =>
            /\ DateNow(now) < NominalExpiryMs(c.token) + 60000 => ~c.expired
            /\ c.expired => DateNow(now) > NominalExpiryMs(c.token) + 60000

\* TokenA (exp = 600 s) is asked about at 540 s, a minute before its expiry
C8_Witness ==
    /\ now = 540
    /\ checked = Some([token |-> TokenA, expired |-> TRUE])

---------------------------------------------------------------------------
(* The API client: what the claims say of the requests it issues.           *)

\* the calls a step starts
StartedCalls ==
    { c \in BagToSet(calls') : CopiesIn(c, calls') > CopiesIn(c, calls) /\ c.pc = "fetch" }

AuthorizationOf(c) == HeadersGet(c.request.headers, "Authorization")

\* C10: a request started through the api client carries Authorization:
\* Bearer <token> with the token getToken() returns when the call starts, if
\* that token is a non-empty string, and no Authorization header otherwise;
\* and the request of a call already started never changes afterwards.
C10_BearerInjection ==
    [][ /\ \A c \in StartedCalls :
              /\ c.request.method \in {"GET", "POST", "PUT", "PATCH", "DELETE"}
              /\ IF window /\ TOKEN_KEY \in DOMAIN localStorage /\ localStorage[TOKEN_KEY] # ""
                 THEN AuthorizationOf(c) = Some("Bearer " \o localStorage[TOKEN_KEY])
                 ELSE AuthorizationOf(c) = None
        /\ \A c \in BagToSet(calls) : \E d \in BagToSet(calls') :
              d.id = c.id /\ d.request = c.request
      ]_vars

\* a call that started while TokenA was stored is still in flight after the
\* token was cleared, and carries TokenA
C10_Witness ==
    /\ window
    /\ getToken = None
    /\ \E c \in BagToSet(calls) :
          /\ c.pc = "json"
          /\ AuthorizationOf(c) = Some("Bearer " \o TokenA)
          /\ HeadersGet(c.request.headers, "X-Request-ID") = Some(c.id)

\* the calls that have settled on a response that is not ok
FailedCalls == { c \in BagToSet(calls) : c.pc = "done" /\ c.response.status # 0 /\ ~c.response.ok }

\* the detail of a response body: None when the body is not JSON, has no
\* detail, or the detail is not a string
BodyDetail(body) ==
    IF JsonParse(body) = None \/ JsonGet(The(JsonParse(body)), "detail").t # "str"
    THEN None
    ELSE Some(JsonGet(The(JsonParse(body)), "detail").s)

\* C11: a call that has settled on a response that is not ok has thrown an
\* ApiError with the response's status; its detail and message are the body's
\* detail string when there is one, and otherwise the message is "Request
\* failed with status <status>"; it has never returned a value.
C11_FailuresThrowApiError ==
    \A c \in FailedCalls :
        /\ c.result.kind = "thrown"
        /\ c.result.name = "ApiError"
        /\ c.result.status = c.response.status
        /\ c.result.data = JUndefined
        /\ IF BodyDetail(c.response.body) # None
           THEN /\ c.result.detail = JStr(The(BodyDetail(c.response.body)))
                /\ c.result.message = The(BodyDetail(c.response.body))
           ELSE c.result.message = "Request failed with status " \o ToString(c.response.status)

\* a call answered 500 with the body null has thrown a TypeError that carries
\* no status
C11_Witness ==
    \E c \in FailedCalls :
        /\ c.response.status = 500
        /\ c.response.body = "null"
        /\ c.result.kind = "thrown"
        /\ c.result.name = "TypeError"
        /\ c.result.status = 0

---------------------------------------------------------------------------
(* Correlation: what the claims say of the request identifier.              *)

\* the X-Request-ID the caller of apiFetch passed in options.headers, if any
SuppliedId(c) == HeadersGet(HeadersOf(c.options.headers), "X-Request-ID")

\* the X-Request-ID of the request handed to fetch
SentId(c) == HeadersGet(c.request.headers, "X-Request-ID")

C13_RequestIdEchoed ==
    \A c \in BagToSet(calls) :
        /\ SentId(c) # None
        /\ c.result.name = "ApiError" =>
              /\ c.result.requestId =
                    IF Truthy(c.response.requestId) THEN The(c.response.requestId)
                    ELSE The(SentId(c))
              /\ \A d \in BagToSet(calls) :
                    d.id # c.id => /\ SentId(d) # SentId(c)
                                   /\ c.result.requestId # The(SentId(d))

\* two calls have failed: one reports the identifier of its response, the
\* other, whose response had none, the identifier it sent
C13_Witness ==
    \E c, d \in BagToSet(calls) :
        /\ c.id # d.id
        /\ c.result.name = "ApiError" /\ c.response.status = 401
        /\ c.result.requestId = "srv-1"
        /\ d.result.name = "ApiError" /\ d.response.status = 502
        /\ d.result.requestId = d.id
        /\ SentId(d) = Some(d.id)

---------------------------------------------------------------------------
(* TenantScopedStore and PermissionGate: what the claims say of a request.  *)

\* the request being served has come to its result
Done == served # None /\ Serving.pc = "done"

\* the store answered the request's operation
Answered(op) ==
    /\ Done /\ Serving.req.op = op
    /\ Serving.trace # <<>> /\ Serving.trace[Len(Serving.trace)] = op

\* the rows an organization owns
RowsOf(organizationId) ==
    { i \in 1..Len(store.rows) : store.rows[i]["organizationId"] = organizationId }

ListedItems == The(Serving.result.value).items

\* C14: a list scoped to an organization returns no record of another organization,
\* whatever the caller's filter holds (an organization constraint of its own or none),
\* and its total is the number of that organization's records the filter selects
C14_ListTenantIsolation ==
    Answered("list") =>
        /\ Serving.result.ok
        /\ Serving.organization = Serving.req.organizationId
        /\ \A i \in 1..Len(ListedItems) :
               ListedItems[i]["organizationId"] = Serving.req.organizationId
        /\ The(Serving.result.value).total =
               Cardinality({ i \in RowsOf(Serving.req.organizationId) :
                               Matches(store.rows[i], Serving.req.body) })

\* orgA and orgB both own a record, and a list scoped to orgA whose filter has no
\* organization constraint has returned orgA's
C14_Witness ==
    /\ Answered("list")
    /\ Serving.req.organizationId = "orgA" /\ Serving.req.body = <<>>
    /\ RowsOf("orgA") # {} /\ RowsOf("orgB") # {}
    /\ Len(ListedItems) = 1


\* the rows with the request's id that another organization than the requested owns
ForeignRows(req) ==
    { i \in 1..Len(store.rows) :
        store.rows[i]["id"] = req.id /\ store.rows[i]["organizationId"] # req.organizationId }

\* the store is about to run get, update or delete for an id of another organization
ForeignCall ==
    /\ served # None /\ Serving.pc = "store"
    /\ Serving.req.op \in {"get", "update", "delete"}
    /\ ForeignRows(Serving.req) # {}

\* C15: get, update and delete of an id that another organization owns answer NotFound,
\* the very answer an absent id gets, and leave every record as it was
C15_CrossTenantNotFound ==
    [][ForeignCall =>
          /\ The(served').result = Failure("NotFound")
          /\ The(served').result = StoreCall(EmptyStore, Serving.organization, Serving.req).result
          /\ store' = store]_vars

\* a delete scoped to orgA of a record that orgB owns was answered NotFound, and the
\* record is still there
C15_Witness ==
    /\ Answered("delete")
    /\ Serving.req.organizationId = "orgA"
    /\ Serving.result = Failure("NotFound")
    /\ \E i \in ForeignRows(Serving.req) : store.rows[i]["organizationId"] = "orgB"


\* the handler has called checkCapability for the request
Checked == \E i \in 1..Len(Serving.trace) : Serving.trace[i] = "checkCapability"

\* the table lists the capability the request's operation requires for the resolved role
Listed ==
    /\ Serving.role \in DOMAIN RoleCapabilities
    /\ RequiredCapability[Serving.req.op] \in RoleCapabilities[Serving.role]

\* C16: a request passes the capability check only when the static table lists the
\* required capability for the caller's role; a role without a mapping or without the
\* capability fails Unauthorized (so a member's delete), and a role with it reaches the
\* store (so an owner's delete)
C16_CapabilityByTable ==
    (Done /\ Checked) =>
        IF Listed THEN Answered(Serving.req.op)
        ELSE Serving.result = Failure("Unauthorized") /\ ~Answered(Serving.req.op)

\* a member of orgA asked to delete a record of orgA and failed Unauthorized
C16_Witness ==
    /\ Done /\ Checked
    /\ Serving.req.op = "delete" /\ Serving.role = "member"
    /\ Serving.result = Failure("Unauthorized")
    /\ \E i \in RowsOf("orgA") : store.rows[i]["id"] = Serving.req.id

\* the owner of orgA asked the same and the record is gone
C16_OwnerDeletes ==
    /\ Answered("delete") /\ Serving.role = "owner" /\ Serving.organization = "orgA"
    /\ Serving.result.ok
    /\ \A i \in 1..Len(store.rows) : store.rows[i]["id"] # Serving.req.id


\* the positions of a trace where the store was invoked
StoreCalls(trace) == { i \in 1..Len(trace) : trace[i] \in DOMAIN RequiredCapability }

\* the store is invoked in this step
StoreInvoked ==
    /\ served' # None /\ StoreCalls(The(served').trace) # {}
    /\ served = None \/ StoreCalls(Serving.trace) = {}

\* the gate has run to its end for the request being served and let it through: the token
\* is an issued one, its subject is a member of the requested organization, and the
\* member's role has the capability
GatePassed ==
    /\ served # None
    /\ Serving.trace = <<"resolve", "resolveMembership", "checkCapability">>
    /\ Serving.req.token # None /\ The(Serving.req.token) \in DOMAIN BearerTokens
    /\ Serving.principal = BearerTokens[The(Serving.req.token)]
    /\ Serving.organization = Serving.req.organizationId
    /\ [principal |-> Serving.principal, organization |-> Serving.organization,
        role |-> Serving.role] \in Memberships
    /\ Listed

GateFailures == {"Unauthenticated", "NotAMember", "Unauthorized"}

\* C17: the store is invoked, and a record changes, only in a step that follows the gate's
\* resolution of the principal and the organization and its capability check; a request
\* that ends Unauthenticated, NotAMember or Unauthorized has invoked no store operation
C17_GateBeforeStore ==
    [][/\ (StoreInvoked \/ store' # store) => GatePassed
       /\ (served' # None /\ The(served').result.kind \in GateFailures)
              => (StoreCalls(The(served').trace) = {} /\ store' = store)]_vars

\* the owner of orgA asked to delete a record of orgB in orgB, failed NotAMember, and the
\* record is still there
C17_Witness ==
    /\ Done /\ Serving.req.op = "delete" /\ Serving.req.organizationId = "orgB"
    /\ Serving.principal = "p1"
    /\ Serving.result = Failure("NotAMember")
    /\ Serving.trace = <<"resolve", "resolveMembership">>
    /\ \E i \in RowsOf("orgB") : store.rows[i]["id"] = Serving.req.id


\* the store is about to run create
Creating == served # None /\ Serving.pc = "store" /\ Serving.req.op = "create"

\* C18: a created record carries the organization id the gate resolved for the request,
\* whatever organization id the payload holds, and no step (so no sequence of updates,
\* whatever their patches hold) changes the organization id of a record
C18_OrganizationIdInjected ==
    [][/\ Creating =>
              /\ Len(store'.rows) = Len(store.rows) + 1
              /\ store'.rows[Len(store'.rows)]["organizationId"] = Serving.organization
              /\ Serving.organization = Serving.req.organizationId
       /\ \A i \in 1..Len(store.rows), j \in 1..Len(store'.rows) :
              store.rows[i]["id"] = store'.rows[j]["id"]
                  => store.rows[i]["organizationId"] = store'.rows[j]["organizationId"]]_vars

\* an update in orgA whose patch holds orgB's id succeeded, on a record that was created
\* in orgA, and the record is orgA's still
C18_Witness ==
    /\ Answered("update") /\ Serving.result.ok
    /\ Serving.organization = "orgA"
    /\ Serving.req.body = ("organizationId" :> "orgB")
    /\ \E i \in RowsOf("orgA") : store.rows[i]["id"] = Serving.req.id

\* a create in orgA whose payload holds orgB's id made a record of orgA
C18_CreateWitness ==
    /\ Answered("create") /\ Serving.result.ok
    /\ Serving.organization = "orgA"
    /\ Serving.req.body["organizationId"] = "orgB"
    /\ The(Serving.result.value)["organizationId"] = "orgA"
    /\ RowsOf("orgB") = {}

---------------------------------------------------------------------------
(* EdgeGuard: following its redirects.                                      *)

\* C19: with the credential unchanged, the request the browser makes after following a
\* redirect of the middleware is passed on, so a navigation is redirected at most once: a
\* caller without a credential is not redirected away from the sign-in page it was sent
\* to, nor a caller with one from the dashboard it was sent to
C19_NoRedirectLoop ==
    /\ Len(history) <= 1
    /\ (Handled /\ Len(history) = 1) => Resp.kind = "next"

\* a caller without a credential asked for a protected page, was sent to the sign-in page
\* of its locale, and got it
C19_Witness ==
    /\ Handled /\ Len(history) = 1
    /\ ReqNoCredential
    /\ history[1] = Origin \o "/fr/dashboard"
    /\ ReqPath = "/fr/signin"
    /\ Resp.kind = "next"

\* a caller with a credential asked for the sign-in page, was sent to the dashboard, and
\* got it
C19_CredentialWitness ==
    /\ Handled /\ Len(history) = 1
    /\ ~ReqNoCredential
    /\ history[1] = Origin \o "/en/signin"
    /\ ReqPath = "/en/dashboard"
    /\ Resp.kind = "next"

---------------------------------------------------------------------------
(* EdgeGuard: the same path under every credential state.                   *)

\* what the middleware answers a request for the same URL that carries these cookies
ResponseWith(cookies) == middleware([url |-> request.url, cookies |-> cookies])

\* C20: every path is passed on for some credential state: when the middleware redirects
\* a request, it passes on a request for the same path under another credential state,
\* also when the path holds both a protected pattern and an auth route as substrings
C20_EveryPathReachable ==
    (Handled /\ Resp.kind = "redirect") =>
        \E cookies \in RequestCookies : ResponseWith(cookies).kind = "next"

\* /admin/login-history holds /admin and /login: the middleware has redirected a request
\* for it, which it does with a credential and without one
C20_Witness ==
    /\ Handled /\ ReqPath = "/admin/login-history"
    /\ Resp.kind = "redirect"
    /\ \A cookies \in RequestCookies : ResponseWith(cookies).kind = "redirect"

---------------------------------------------------------------------------
(* The session: logins that fail, and logins that a logout overtakes.       *)

\* the login() call comes to its end in this step
LoginEnds(m) == m.pc = "done" /\ CopiesIn(m, logins') > CopiesIn(m, logins)

\* C21: a login() whose response is not OK, or whose request failed, throws, and the
\* step in which it throws changes neither localStorage nor the cookie jar: a token
\* stored before stays, and a client without one stays without
C21_FailedLoginKeepsSession ==
    [][ \A m \in BagToSet(logins') :
          (LoginEnds(m) /\ ~m.response.ok) =>
              /\ m.result.kind = "thrown"
              /\ localStorage' = localStorage
              /\ cookieJar' = cookieJar
      ]_vars

\* setToken had stored TokenA, a login was then refused by the backend, and the browser
\* holds TokenA still
C21_Witness ==
    /\ window
    /\ \E l \in BagToSet(logins) :
          /\ l.pc = "done" /\ l.response.status = 401
          /\ l.result = Thrown("Incorrect email or password")
    /\ getToken = Some(TokenA)
    /\ SeenAt("/en/dashboard") = Some(TokenA)


\* C22: once logout() has run, no login() call started before it makes the client
\* authenticated again: with no login and no setToken started after the logout, the
\* browser holds no token in localStorage and no credential cookie
C22_LogoutWins ==
    LoggedOut =>
        /\ ~isAuthenticated
        /\ TOKEN_KEY \notin DOMAIN localStorage
        /\ MirrorCookies = {}

\* logout() ran while a login() was awaiting its response; the response came and the
\* login stored its token: the browser is at the sign-in page and authenticated
C22_Witness ==
    /\ LoggedOut
    /\ \E l \in BagToSet(logins) : l.pc = "done" /\ l.result.kind = "returned"
    /\ getToken = Some(TokenB)
    /\ SeenAt("/en/dashboard") = Some(TokenB)

---------------------------------------------------------------------------
(* Token expiry: tokens without a usable expiry.                            *)

\* C23: isTokenExpired answers true for every token that does not decode to a payload
\* with a numeric exp (no payload segment, a segment that is not base64 or not JSON, a
\* payload without exp or with an exp that is no number): decodeToken gives null or a
\* payload without the expiry, and no such token is reported as unexpired
C23_ExpiryFailsClosed ==
    \A c \in checked : ~HasNominalExpiry(c.token) => c.expired

\* the payload of TokenNoExp is {"sub":"u1"}: decodeToken returns it, exp is undefined,
\* and isTokenExpired has answered false
C23_Witness ==
    /\ decodeToken(TokenNoExp) # None
    /\ JsonGet(PayloadOf(TokenNoExp), "exp").t = "undefined"
    /\ checked = Some([token |-> TokenNoExp, expired |-> FALSE])

\* tokens that decodeToken answers null for are reported expired
C23_UndecodableExpired ==
    \A c \in checked : decodeToken(c.token) = None => c.expired

===========================================================================
